---- MODULE Spec2Model ----
(***************************************************************************)
(* Model of rompy/schism/plotting/overview.py: the OverviewPlotter, which  *)
(* composes multi-panel figures.  A composition call creates a figure,     *)
(* adds one Axes per region in a fixed order, runs one panel routine per   *)
(* region, sets the overall title, optionally saves, and returns.          *)
(*                                                                         *)
(* The collaborators that are not in this file (GridPlotter, DataPlotter,  *)
(* matplotlib, the file system) are inputs: each fallible body takes a     *)
(* fault f, "ok" (runs to its end), "raise" (raises before it has drawn    *)
(* anything) or "partial" (raises after it has drawn something).           *)
(***************************************************************************)
EXTENDS Integers, Sequences, FiniteSets, TLC

VARIABLES
    grid,          \* self.grid: None or a grid handle
    data_plotter,  \* self.data_plotter: the methods it offers
    plot_config,   \* self.plot_config
    fsys,          \* the file system under save_path: [dir, file]
    pc,            \* position of the composing call
    entry,         \* the entry point being executed
    args,          \* its arguments
    plot_kwargs,   \* the keyword arguments of plot(), when the call came by it
    fig,           \* the Figure under construction
    axes,          \* the dict of Axes, keyed by panel name
    order,         \* the keys of axes in insertion order
    log,           \* the records the logger received during this call
    saves,         \* the steps _save_plot took during this call
    calls,         \* composition calls started on this plotter
    faults,        \* faults injected during this call
    metrics,       \* input of the chart routines checked on their own
    chart,         \* the Axes a chart routine checked on its own draws into
    data_chart     \* the Axes the data quality bars checked on their own go to

vars == <<grid, data_plotter, plot_config, fsys, pc, entry, args,
          plot_kwargs, fig, axes, order, log, saves, calls, faults, metrics,
          chart, data_chart>>

plotterVars == <<grid, data_plotter, plot_config>>
callVars == <<fsys, pc, entry, args, plot_kwargs, fig, axes, order, log,
              saves, calls, faults>>
chartVars == <<metrics, chart, data_chart>>

(***************************************************************************)
(* Bounds of the model.                                                    *)
(***************************************************************************)
MaxCalls == 2      \* composition calls on one plotter
MaxFaults == 1     \* faults injected into one composition call
MaxMetrics == 3    \* entries of a metrics dict given to a chart routine
MaxPairs == 7      \* key/value pairs of a statistics dict given to the table
MaxDepths == 3     \* depth values of a grid handle given to the depth routines

None == "None"
NoExc == "NoExc"
\* A depth value: a number of metres, or the missing value.
V(x) == [nan |-> FALSE, v |-> x]
NaN == [nan |-> TRUE, v |-> 0]

Faults == {"ok", "raise", "partial"}

(***************************************************************************)
(* Values.  Scores are in hundredths (0.85 is 85).                         *)
(***************************************************************************)
DepthArrays == {<<V(1), V(2), V(3), NaN>>, <<NaN>>}

\* self.grid: no handle, a handle without a depth variable, or a handle with
\* node and element coordinates and a depth array.
NoGrid == [present |-> FALSE, has_depth |-> FALSE, node |-> 0, face |-> 0,
           depth |-> <<>>]

GridHandles ==
    {NoGrid}
    \cup {[present |-> TRUE, has_depth |-> FALSE, node |-> 4, face |-> 2,
           depth |-> <<>>]}
    \cup {[present |-> TRUE, has_depth |-> TRUE, node |-> 4, face |-> 2,
           depth |-> d] : d \in DepthArrays}

RECURSIVE DepthsUpTo(_)
\* The depth arrays of 1..n values, each 1, 2 or 3 metres or missing.
DepthsUpTo(n) ==
    IF n = 0 THEN {}
    ELSE DepthsUpTo(n - 1)
         \cup {<<x>> : x \in {V(1), V(2), V(3), NaN}}
         \cup {Append(d, x) : d \in {e \in DepthsUpTo(n - 1) : Len(e) = n - 1},
                              x \in {V(1), V(2), V(3), NaN}}

\* Grid handles with a depth variable, over every small depth array.
DepthGrids ==
    {[present |-> TRUE, has_depth |-> TRUE, node |-> 4, face |-> 2,
      depth |-> d] : d \in DepthArrays \cup DepthsUpTo(MaxDepths)}

\* hasattr(self, 'grid') and self.grid is not None
HasGrid == grid.present

SavePaths == {None, "", "out/overview.png"}

\* Variant of Truthy that tests `save_path is not None`.
Truthy_NotNone(p) == p # None

\* Python truthiness of a save_path argument: None and "" are false.
Truthy(p) == p # None /\ p # ""

Scores == {50, 60, 75, 80, 85, 90, 95}
MetricNames == {"a", "b", "c"}

RECURSIVE Dicts(_)
\* The dicts (ordered key/value pairs, keys distinct) of at most n entries.
Dicts(n) ==
    IF n = 0 THEN {<<>>}
    ELSE LET S == Dicts(n - 1)
         IN S \cup {Append(d, <<k, v>>) :
                      d \in {e \in S : Len(e) = n - 1},
                      k \in MetricNames, v \in Scores}

DistinctKeys(d) == \A i, j \in 1..Len(d) : i # j => d[i][1] # d[j][1]

MetricDicts == {d \in Dicts(MaxMetrics) : DistinctKeys(d)}

\* The statuses of a validation check, one of them unknown to the chart.
Statuses == {"PASS", "WARNING", "FAIL", "UNKNOWN"}

RECURSIVE Results(_)
\* The validation results (check name to status) of at most n checks.
Results(n) ==
    IF n = 0 THEN {<<>>}
    ELSE LET S == Results(n - 1)
         IN S \cup {Append(d, <<k, v>>) :
                      d \in {e \in S : Len(e) = n - 1},
                      k \in MetricNames, v \in Statuses}

ResultDicts == {d \in Results(MaxMetrics) : DistinctKeys(d)}

(***************************************************************************)
(* Axes, artists and log records.                                          *)
(***************************************************************************)
\* Variant of add_subplot that hands out one and the same Axes object.
add_subplot_Shared(id, cells) ==
    [id |-> <<0, 1>>, cells |-> cells, artists |-> <<>>, labels |-> <<>>,
     title |-> "", bold |-> FALSE]

\* fig.add_subplot(gs[...]): a fresh, empty Axes over the given grid cells.
\* An object's identity is the call that created it and its rank in that call.
add_subplot(id, cells) ==
    [id |-> id, cells |-> cells, artists |-> <<>>, labels |-> <<>>,
     title |-> "", bold |-> FALSE]

Art(kind, what, val, color) ==
    [kind |-> kind, what |-> what, val |-> val, color |-> color]

\* A chart primitive (bar, hist, plot, table, annotation) adds an artist.
Draw(ax, a) == [ax EXCEPT !.artists = Append(@, a)]

DrawAll(ax, as) == [ax EXCEPT !.artists = @ \o as]

\* ax.text(0.5, 0.5, s, ha='center', va='center'): a placeholder label.
Text(ax, s) == [ax EXCEPT !.labels = Append(@, s)]

\* ax.set_title(t, fontweight='bold')
set_title(ax, t) == [ax EXCEPT !.title = t, !.bold = TRUE]

\* logger.warning(f"{msg}: {e}")
Warning(msg, e) == [level |-> "warning", msg |-> msg, cause |-> e]

\* The outcome of a body: the Axes, the records logged, the exception raised.
R(ax, lg, exc) == [ax |-> ax, log |-> lg, exc |-> exc]

\* try: body / except Exception as e: logger.warning(...); ax.text(...)
Guard(r, msg, label) ==
    IF r.exc = NoExc THEN r
    ELSE R(Text(r.ax, label), Append(r.log, Warning(msg, r.exc)), NoExc)

\* A body that raises before its first artist, after it, or not at all.
Fallible(ax, a, f) ==
    CASE f = "raise" -> R(ax, <<>>, "Exception")
      [] f = "partial" -> R(Draw(ax, a), <<>>, "Exception")
      [] OTHER -> R(Draw(ax, a), <<>>, NoExc)

(***************************************************************************)
(* The chart-producer delegates, GridPlotter and DataPlotter.              *)
(***************************************************************************)
plot_bathymetry(ax, f) == Fallible(ax, Art("delegate", "bathymetry", 0, ""), f)

plot_boundaries(ax, f) == Fallible(ax, Art("delegate", "boundaries", 0, ""), f)

plot_grid(ax, f) == Fallible(ax, Art("delegate", "grid", 0, ""), f)

plot_grid_quality(ax, f) == Fallible(ax, Art("delegate", "grid_quality", 0, ""), f)

plot_atmospheric_spatial(ax, f) == Fallible(ax, Art("delegate", "atmospheric", 0, ""), f)

(***************************************************************************)
(* Depth values of the grid handle.                                        *)
(***************************************************************************)
\* Variant of NonNaN that keeps the missing values.
NonNaN_KeepAll(d) == d

\* depths[~np.isnan(depths)]
NonNaN(d) == SelectSeq(d, LAMBDA x : ~x.nan)

RECURSIVE SeqMin(_)
SeqMin(s) ==
    IF Len(s) = 1 THEN s[1].v
    ELSE LET m == SeqMin(Tail(s)) IN IF s[1].v < m THEN s[1].v ELSE m

RECURSIVE SeqMax(_)
SeqMax(s) ==
    IF Len(s) = 1 THEN s[1].v
    ELSE LET m == SeqMax(Tail(s)) IN IF s[1].v > m THEN s[1].v ELSE m

RECURSIVE SeqSum(_)
SeqSum(s) == IF s = <<>> THEN 0 ELSE s[1].v + SeqSum(Tail(s))

\* The largest r with r * r <= n.
ISqrt(n) == CHOOSE r \in 0..n : r * r <= n /\ (r + 1) * (r + 1) > n

\* f"{x:.2f}" of the quotient a / b, in hundredths, rounded to nearest.
Fmt2(a, b) == (200 * a + b) \div (2 * b)

\* _get_grid_info: the annotation text, and what it logs.
_get_grid_info ==
    IF HasGrid
    THEN IF ~grid.has_depth
         THEN [text |-> "Grid info unavailable",
               log |-> <<Warning("Could not get grid info", "AttributeError")>>]
         ELSE [text |-> "Nodes, Elements, Depth", log |-> <<>>]
    ELSE [text |-> "Grid info unavailable", log |-> <<>>]

(***************************************************************************)
(* Stub providers: the fixed values the panels of the comprehensive        *)
(* overview show.                                                          *)
(***************************************************************************)
\* Variant of _calculate_quality_metrics that has no metrics without a grid.
_calculate_quality_metrics_OfGrid ==
    IF HasGrid
    THEN << <<"min_aspect_ratio", 85>>, <<"avg_aspect_ratio", 95>>,
            <<"skewness_score", 92>>, <<"orthogonality_score", 88>> >>
    ELSE <<>>

_calculate_quality_metrics ==
    << <<"min_aspect_ratio", 85>>, <<"avg_aspect_ratio", 95>>,
       <<"skewness_score", 92>>, <<"orthogonality_score", 88>> >>

_run_validation_checks ==
    << <<"Grid connectivity", "PASS">>, <<"Boundary conditions", "PASS">>,
       <<"Time stepping", "WARNING">>, <<"Data coverage", "PASS">>,
       <<"File integrity", "PASS">> >>

_get_data_summary ==
    << <<"atmospheric_files", 2>>, <<"boundary_files", 3>>,
       <<"tidal_constituents", 8>>, <<"time_coverage_days", 30>> >>

_get_model_info ==
    << <<"SCHISM Version", "5.11.0">>, <<"Grid Type", "Unstructured">>,
       <<"Vertical Layers", "10">>, <<"Physics", "Hydrostatic">>,
       <<"Modules", "WWM, ICE, SED">> >>

(***************************************************************************)
(* Chart routines.                                                         *)
(***************************************************************************)
\* Variant of QualityColor whose thresholds are inclusive.
QualityColor_Inclusive(v) ==
    IF v >= 80 THEN "green" ELSE IF v >= 60 THEN "orange" ELSE "red"

\* The colour of a bar of the grid quality chart.
QualityColor(v) ==
    IF v > 80 THEN "green" ELSE IF v > 60 THEN "orange" ELSE "red"

_plot_quality_metrics_chart(ax, m, f) ==
    IF m = <<>>
    THEN R(Text(ax, "No quality metrics available"), <<>>, NoExc)
    ELSE LET bars == [i \in 1..Len(m) |->
                        Art("barh", m[i][1], m[i][2], QualityColor(m[i][2]))]
             vals == [i \in 1..Len(m) |-> Art("text", m[i][1], m[i][2], "")]
         IN CASE f = "raise" -> R(ax, <<>>, "Exception")
              [] f = "partial" -> R(DrawAll(ax, bars), <<>>, "Exception")
              [] OTHER -> R(DrawAll(DrawAll(ax, bars), vals), <<>>, NoExc)

\* Variant of StatusColor whose default colour is that of 'FAIL'.
StatusColor_DefaultRed(status) ==
    CASE status = "PASS" -> "green"
      [] status = "WARNING" -> "orange"
      [] OTHER -> "red"

\* colors.get(status, 'gray')
StatusColor(status) ==
    CASE status = "PASS" -> "green"
      [] status = "WARNING" -> "orange"
      [] status = "FAIL" -> "red"
      [] OTHER -> "gray"

_plot_validation_results(ax, results, f) ==
    IF results = <<>>
    THEN R(Text(ax, "No validation results"), <<>>, NoExc)
    ELSE LET bars == [i \in 1..Len(results) |->
                        Art("barh", results[i][1], i - 1,
                            StatusColor(results[i][2]))]
             stat == [i \in 1..Len(results) |->
                        Art("text", results[i][2], i - 1, "white")]
         IN CASE f = "raise" -> R(ax, <<>>, "Exception")
              [] f = "partial" -> R(DrawAll(ax, bars), <<>>, "Exception")
              [] OTHER -> R(DrawAll(DrawAll(ax, bars), stat), <<>>, NoExc)

_plot_data_summary_chart(ax, summary, f) ==
    IF summary = <<>>
    THEN R(Text(ax, "No data summary available"), <<>>, NoExc)
    ELSE Fallible(ax, Art("text", "summary", Len(summary), "lightblue"), f)

_plot_forcing_timeseries_overview(ax, f) ==
    Guard(Fallible(ax, Art("plot", "Wind Speed", 30, "b"), f),
          "Could not plot forcing timeseries", "Time series data unavailable")

_plot_model_info_table(ax, info, f) ==
    IF info = <<>>
    THEN R(Text(ax, "No model info available"), <<>>, NoExc)
    ELSE Fallible(ax, Art("table", "Parameter, Value", Len(info), ""), f)

\* _add_data_source_markers: a placeholder that draws nothing.
_add_data_source_markers(ax) == ax

(***************************************************************************)
(* Panel routines of the comprehensive overview.                           *)
(***************************************************************************)
_plot_main_grid_panel(ax, f) ==
    LET d == plot_bathymetry(ax, f)
        t == set_title(d.ax, "Grid and Bathymetry")
        gi == _get_grid_info
        body == IF d.exc # NoExc THEN d
                ELSE IF HasGrid
                     THEN R(Draw(t, Art("text", gi.text, 0, "white")), gi.log, NoExc)
                     ELSE R(t, <<>>, NoExc)
    IN Guard(body, "Could not plot main grid panel",
             "Grid visualization unavailable")

_plot_boundary_panel(ax, f) ==
    LET d == plot_boundaries(ax, f)
        body == IF d.exc # NoExc THEN d
                ELSE R(set_title(d.ax, "Boundary Conditions"), <<>>, NoExc)
    IN Guard(body, "Could not plot boundary panel", "Boundary data unavailable")

_plot_data_locations_panel(ax, f) ==
    LET d == IF HasGrid THEN plot_grid(ax, f) ELSE R(ax, <<>>, NoExc)
        body == IF d.exc # NoExc THEN d
                ELSE R(set_title(_add_data_source_markers(d.ax), "Data Locations"),
                       <<>>, NoExc)
    IN Guard(body, "Could not plot data locations panel",
             "Data locations unavailable")

_plot_quality_metrics_panel(ax, f) ==
    LET body == IF HasGrid
                THEN _plot_quality_metrics_chart(ax, _calculate_quality_metrics, f)
                ELSE R(Text(ax, "Grid quality metrics unavailable"), <<>>, NoExc)
        g == Guard(body, "Could not plot quality metrics",
                   "Quality metrics unavailable")
    IN R(set_title(g.ax, "Grid Quality"), g.log, NoExc)

_plot_validation_panel(ax, f) ==
    LET g == Guard(_plot_validation_results(ax, _run_validation_checks, f),
                   "Could not plot validation panel", "Validation unavailable")
    IN R(set_title(g.ax, "Model Validation"), g.log, NoExc)

_plot_data_summary_panel(ax, f) ==
    LET g == Guard(_plot_data_summary_chart(ax, _get_data_summary, f),
                   "Could not plot data summary", "Data summary unavailable")
    IN R(set_title(g.ax, "Data Summary"), g.log, NoExc)

_plot_timeseries_overview_panel(ax, f) ==
    LET g == Guard(_plot_forcing_timeseries_overview(ax, f),
                   "Could not plot timeseries overview", "Time series unavailable")
    IN R(set_title(g.ax, "Forcing Overview"), g.log, NoExc)

_plot_model_info_panel(ax, f) ==
    LET g == Guard(_plot_model_info_table(ax, _get_model_info, f),
                   "Could not plot model info", "Model info unavailable")
    IN R(set_title(g.ax, "Model Configuration"), g.log, NoExc)

(***************************************************************************)
(* Routines of the grid analysis overview.                                 *)
(***************************************************************************)
_plot_depth_histogram(ax, f) ==
    LET depths == NonNaN(grid.depth)
        h == Fallible(ax, Art("hist", "Depth (m)", depths, ""), f)
        body == IF HasGrid
                THEN IF ~grid.has_depth THEN R(ax, <<>>, "AttributeError")
                     ELSE IF h.exc # NoExc THEN h
                     ELSE R(set_title(h.ax, "Depth Distribution"), <<>>, NoExc)
                ELSE R(Text(ax, "Grid data unavailable"), <<>>, NoExc)
    IN Guard(body, "Could not plot depth histogram",
             "Depth histogram unavailable")

_plot_element_size_histogram(ax, f) ==
    LET h == Fallible(ax, Art("hist", "Element Size", 1000, ""), f)
        body == IF h.exc # NoExc THEN h
                ELSE R(set_title(h.ax, "Element Size Distribution"), <<>>, NoExc)
    IN Guard(body, "Could not plot element size histogram",
             "Element size histogram unavailable")

\* The statistics of the grid handle, values in hundredths, and what is
\* logged; the empty dict when they cannot be computed.
_calculate_grid_statistics ==
    LET depths == NonNaN(grid.depth)
        n == Len(depths)
        mean == (SeqSum(depths) * 100) \div n
        dev2 == SeqSum([i \in 1..n |->
                          V((depths[i].v * 100 - mean) * (depths[i].v * 100 - mean))])
        failed(e) == [val |-> <<>>,
                      log |-> <<Warning("Could not calculate grid statistics", e)>>]
    IN IF ~HasGrid THEN [val |-> <<>>, log |-> <<>>]
       ELSE IF ~grid.has_depth THEN failed("AttributeError")
       ELSE IF n = 0 THEN failed("ValueError")
       ELSE [val |-> << <<"Total Nodes", grid.node>>,
                        <<"Total Elements", grid.face>>,
                        <<"Min Depth", 100 * SeqMin(depths)>>,
                        <<"Max Depth", 100 * SeqMax(depths)>>,
                        <<"Mean Depth", Fmt2(SeqSum(depths), n)>>,
                        <<"Depth Std", (ISqrt(4 * (dev2 \div n)) + 1) \div 2>> >>,
             log |-> <<>>]

\* title.lower()
Lower(title) ==
    CASE title = "Grid Statistics" -> "grid statistics"
      [] title = "Data Statistics" -> "data statistics"
      [] OTHER -> title

n_cols == 3

\* Variant of TableData that fills one slot more than there are items.
TableData_OneSlotMore(items) ==
    LET n_rows == (Len(items) + n_cols - 1) \div n_cols
        cell(row, j) ==
            LET idx == row * n_cols + (j \div 2)
            IN IF idx <= Len(items)
               THEN [empty |-> FALSE, item |-> idx, part |-> j % 2]
               ELSE [empty |-> TRUE, item |-> 0, part |-> 0]
    IN [r \in 1..n_rows |-> [c \in 1..(2 * n_cols) |-> cell(r - 1, c - 1)]]

\* table_data of _create_statistics_table: n_rows rows of 2 * n_cols cells.
\* A cell holds part 0 (the key) or part 1 (the value) of items[item], or ''.
TableData(items) ==
    LET n_rows == (Len(items) + n_cols - 1) \div n_cols
        cell(row, j) ==
            LET idx == row * n_cols + (j \div 2)
            IN IF idx < Len(items)
               THEN [empty |-> FALSE, item |-> idx, part |-> j % 2]
               ELSE [empty |-> TRUE, item |-> 0, part |-> 0]
    IN [r \in 1..n_rows |-> [c \in 1..(2 * n_cols) |-> cell(r - 1, c - 1)]]

\* The styling loop: table[(i, j)] for every i < n_rows and j < 2 * n_cols.
StyleTable(table_data, n_rows) ==
    [r \in 1..n_rows |->
       [c \in 1..(2 * n_cols) |->
          [cell |-> table_data[r][c],
           face |-> IF (c - 1) % 2 = 0 THEN "#f8f9fa" ELSE "white"]]]

_create_statistics_table(ax, stats, title, f) ==
    IF stats = <<>>
    THEN R(Text(ax, "No " \o Lower(title) \o " available"), <<>>, NoExc)
    ELSE LET n_rows == (Len(stats) + n_cols - 1) \div n_cols
             table == StyleTable(TableData(stats), n_rows)
             t == Fallible(ax, Art("table", title, table, ""), f)
         IN IF t.exc # NoExc THEN t
            ELSE R(set_title(t.ax, title), <<>>, NoExc)

_plot_grid_statistics_table(ax, f) ==
    LET st == _calculate_grid_statistics
        tb == _create_statistics_table(ax, st.val, "Grid Statistics", f)
        body == IF HasGrid THEN R(tb.ax, st.log \o tb.log, tb.exc)
                ELSE R(Text(ax, "Grid statistics unavailable"), <<>>, NoExc)
    IN Guard(body, "Could not plot grid statistics",
             "Grid statistics unavailable")

(***************************************************************************)
(* Routines of the data analysis overview.                                 *)
(***************************************************************************)
_plot_atmospheric_overview(ax, f) ==
    LET body == IF data_plotter.plot_atmospheric_spatial
                THEN plot_atmospheric_spatial(ax, f)
                ELSE R(Text(ax, "Atmospheric data unavailable"), <<>>, NoExc)
        g == Guard(body, "Could not plot atmospheric overview",
                   "Atmospheric data unavailable")
    IN R(set_title(g.ax, "Atmospheric Forcing"), g.log, NoExc)

\* With a grid the outline is drawn first: "raise" is plot_grid raising,
\* "partial" is plot_boundaries raising once the outline is drawn.
_plot_boundary_data_locations(ax, f) ==
    LET o == plot_grid(ax, IF f = "raise" THEN "raise" ELSE "ok")
        body == IF ~HasGrid THEN plot_boundaries(ax, f)
                ELSE IF o.exc # NoExc THEN o
                ELSE plot_boundaries(o.ax, IF f = "partial" THEN "raise" ELSE "ok")
        g == Guard(body,
                   "Could not plot boundary data locations",
                   "Boundary locations unavailable")
    IN R(set_title(g.ax, "Boundary Data Locations"), g.log, NoExc)

data_types == <<"Atmospheric", "Boundary T/S", "Boundary UV", "Tidal">>

coverage_colors == <<"blue", "green", "red", "orange">>

\* Variant of CoverageBar whose length is the end offset, 30 - i days.
CoverageBar_LengthIsEnd(i) ==
    [kind |-> "barh", what |-> data_types[i + 1], val |-> 30 - i,
     color |-> coverage_colors[i + 1], left |-> i * 2, y |-> i]

\* The bar of category i: left = (coverage_start - start_date).days,
\* width = (coverage_end - coverage_start).days.
CoverageBar(i) ==
    [kind |-> "barh", what |-> data_types[i + 1], val |-> (30 - i) - i * 2,
     color |-> coverage_colors[i + 1], left |-> i * 2, y |-> i]

CoverageBars == [k \in 1..Len(data_types) |-> CoverageBar(k - 1)]

_plot_data_coverage_timeline(ax, f) ==
    LET bars == CoverageBars
        body == CASE f = "raise" -> R(ax, <<>>, "Exception")
                  [] f = "partial" -> R(DrawAll(ax, bars), <<>>, "Exception")
                  [] OTHER -> R(DrawAll(ax, bars), <<>>, NoExc)
        g == Guard(body, "Could not plot data coverage timeline",
                   "Data coverage unavailable")
    IN R(set_title(g.ax, "Data Coverage Timeline"), g.log, NoExc)

_plot_atmospheric_timeseries_overview(ax, f) ==
    LET lines == <<Art("plot", "Wind Speed (m/s)", 120, "b"),
                   Art("plot", "Pressure (hPa)", 120, "r")>>
        body == CASE f = "raise" -> R(ax, <<>>, "Exception")
                  [] f = "partial" -> R(DrawAll(ax, lines), <<>>, "Exception")
                  [] OTHER -> R(DrawAll(ax, lines), <<>>, NoExc)
        g == Guard(body, "Could not plot atmospheric timeseries",
                   "Atmospheric time series unavailable")
    IN R(set_title(g.ax, "Atmospheric Forcing Time Series"), g.log, NoExc)

_plot_boundary_timeseries_overview(ax, f) ==
    LET lines == <<Art("plot", "Temperature", 720, "r"),
                   Art("plot", "Salinity (psu)", 720, "b")>>
        body == CASE f = "raise" -> R(ax, <<>>, "Exception")
                  [] f = "partial" -> R(DrawAll(ax, lines), <<>>, "Exception")
                  [] OTHER -> R(DrawAll(ax, lines), <<>>, NoExc)
        g == Guard(body, "Could not plot boundary timeseries",
                   "Boundary time series unavailable")
    IN R(set_title(g.ax, "Boundary Conditions"), g.log, NoExc)

data_quality_values ==
    << <<"Completeness", 95>>, <<"Consistency", 88>>,
       <<"Temporal Coverage", 92>>, <<"Spatial Coverage", 85>>,
       <<"Value Ranges", 90>> >>

\* Variant of DataQualityColor with the thresholds of the grid quality chart.
DataQualityColor_AsGridQuality(v) ==
    IF v > 80 THEN "green" ELSE IF v > 60 THEN "orange" ELSE "red"

\* The colour of a bar of the data quality chart.
DataQualityColor(v) ==
    IF v >= 90 THEN "green" ELSE IF v >= 80 THEN "orange" ELSE "red"

\* ax.bar(categories, values, color=colors): one bar per entry of m.
DataQualityBars(m) ==
    [i \in 1..Len(m) |->
       Art("bar", m[i][1], m[i][2], DataQualityColor(m[i][2]))]

_plot_data_quality_metrics(ax, f) ==
    LET m == data_quality_values
        bars == DataQualityBars(m)
        vals == [i \in 1..Len(m) |-> Art("text", m[i][1], m[i][2], "")]
        body == CASE f = "raise" -> R(ax, <<>>, "Exception")
                  [] f = "partial" ->
                       R(set_title(DrawAll(ax, bars), "Data Quality Metrics"),
                         <<>>, "Exception")
                  [] OTHER ->
                       R(DrawAll(set_title(DrawAll(ax, bars), "Data Quality Metrics"),
                                 vals), <<>>, NoExc)
        g == Guard(body, "Could not plot data quality metrics",
                   "Data quality metrics unavailable")
    IN R(set_title(g.ax, "Data Quality"), g.log, NoExc)

data_statistics ==
    << <<"Atmospheric Files", "3">>, <<"Boundary Files", "5">>,
       <<"Time Coverage", "30 days">>, <<"Temporal Resolution", "6 hours">>,
       <<"Tidal Constituents", "8">>, <<"Grid Points", "2,500">> >>

_plot_data_statistics_table(ax, f) ==
    Guard(_create_statistics_table(ax, data_statistics, "Data Statistics", f),
          "Could not plot data statistics", "Data statistics unavailable")

(***************************************************************************)
(* Saving.                                                                 *)
(***************************************************************************)
SaveFaults == {"ok", "path", "mkdir", "write"}

Did(op) == [op |-> op, ok |-> TRUE]
Failed(op) == [op |-> op, ok |-> FALSE]

\* Variant of _save_plot without the except clause: a failure propagates.
_save_plot_uncaught(fs, f) ==
    LET raised(fs1, steps) ==
            [fsys |-> fs1, steps |-> steps, exc |-> "Exception", log |-> <<>>]
        made == [fs EXCEPT !.dir = TRUE]
    IN CASE f = "path" -> raised(fs, <<Failed("Path")>>)
         [] f = "mkdir" -> raised(fs, <<Did("Path"), Failed("mkdir")>>)
         [] f = "write" ->
              raised(made, <<Did("Path"), Did("mkdir"), Failed("savefig")>>)
         [] OTHER ->
              [fsys |-> [made EXCEPT !.file = TRUE],
               steps |-> <<Did("Path"), Did("mkdir"), Did("savefig")>>,
               exc |-> NoExc,
               log |-> <<[level |-> "info", msg |-> "Overview plot saved",
                          cause |-> NoExc]>>]

\* Variant of _save_plot that goes on to write after mkdir has failed.
_save_plot_WriteAnyway(fs, f) ==
    LET caught(fs1, steps) ==
            [fsys |-> fs1, steps |-> steps, exc |-> NoExc,
             log |-> <<[level |-> "error", msg |-> "Could not save plot",
                        cause |-> "Exception"]>>]
        made == [fs EXCEPT !.dir = TRUE]
    IN CASE f = "path" -> caught(fs, <<Failed("Path")>>)
         [] f = "mkdir" ->
              caught(fs, <<Did("Path"), Failed("mkdir"), Failed("savefig")>>)
         [] f = "write" ->
              caught(made, <<Did("Path"), Did("mkdir"), Failed("savefig")>>)
         [] OTHER ->
              [fsys |-> [made EXCEPT !.file = TRUE],
               steps |-> <<Did("Path"), Did("mkdir"), Did("savefig")>>,
               exc |-> NoExc,
               log |-> <<[level |-> "info", msg |-> "Overview plot saved",
                          cause |-> NoExc]>>]

\* _save_plot(fig, save_path): Path(), parent.mkdir(parents, exist_ok),
\* fig.savefig(); any exception is logged at error level, none is raised.
_save_plot(fs, f) ==
    LET caught(fs1, steps) ==
            [fsys |-> fs1, steps |-> steps, exc |-> NoExc,
             log |-> <<[level |-> "error", msg |-> "Could not save plot",
                        cause |-> "Exception"]>>]
        made == [fs EXCEPT !.dir = TRUE]
    IN CASE f = "path" -> caught(fs, <<Failed("Path")>>)
         [] f = "mkdir" -> caught(fs, <<Did("Path"), Failed("mkdir")>>)
         [] f = "write" ->
              caught(made, <<Did("Path"), Did("mkdir"), Failed("savefig")>>)
         [] OTHER ->
              [fsys |-> [made EXCEPT !.file = TRUE],
               steps |-> <<Did("Path"), Did("mkdir"), Did("savefig")>>,
               exc |-> NoExc,
               log |-> <<[level |-> "info", msg |-> "Overview plot saved",
                          cause |-> NoExc]>>]

(***************************************************************************)
(* Layouts: the regions of each entry point in the order the code creates  *)
(* them, and the GridSpec cells each one takes.                            *)
(***************************************************************************)
Comprehensive == "plot_comprehensive_overview"
GridAnalysis == "plot_grid_analysis_overview"
DataAnalysis == "plot_data_analysis_overview"

EntryPoints == {Comprehensive, GridAnalysis, DataAnalysis}

Cells(rows, cols) == rows \X cols

GridShape(e) == IF e = Comprehensive THEN 4 ELSE 3

\* Variant of Panels whose grid analysis overview lacks the size histogram.
Panels_NoSizeHist(e) ==
    CASE e = Comprehensive ->
           <<"grid", "boundaries", "data_locations", "quality", "validation",
             "data_summary", "timeseries", "info">>
      [] e = GridAnalysis ->
           <<"grid", "quality", "boundaries", "depth_hist", "stats">>
      [] e = DataAnalysis ->
           <<"atmospheric", "boundary_locations", "coverage", "atm_timeseries",
             "boundary_ts", "data_quality", "data_stats">>

Panels(e) ==
    CASE e = Comprehensive ->
           <<"grid", "boundaries", "data_locations", "quality", "validation",
             "data_summary", "timeseries", "info">>
      [] e = GridAnalysis ->
           <<"grid", "quality", "boundaries", "depth_hist", "size_hist", "stats">>
      [] e = DataAnalysis ->
           <<"atmospheric", "boundary_locations", "coverage", "atm_timeseries",
             "boundary_ts", "data_quality", "data_stats">>

\* Variant of Included whose validation panel follows the quality flag.
Included_ValidationByQuality(e, a, key) ==
    \/ e # Comprehensive
    \/ CASE key = "quality" -> a.include_quality_metrics
         [] key = "validation" -> a.include_quality_metrics
         [] key = "data_summary" -> a.include_data_summary
         [] OTHER -> TRUE

\* The if-statements around the optional panels of the comprehensive overview.
Included(e, a, key) ==
    \/ e # Comprehensive
    \/ CASE key = "quality" -> a.include_quality_metrics
         [] key = "validation" -> a.include_validation
         [] key = "data_summary" -> a.include_data_summary
         [] OTHER -> TRUE

Regions(e, a) == SelectSeq(Panels(e), LAMBDA k : Included(e, a, k))

IndexOf(seq, x) == CHOOSE i \in 1..Len(seq) : seq[i] = x

\* The statement reached after the panel `key`.
After(e, a, key) ==
    LET rs == Regions(e, a)
        i == IndexOf(rs, key)
    IN IF i < Len(rs) THEN rs[i + 1] ELSE "suptitle"

Suptitle(e) ==
    CASE e = Comprehensive -> "SCHISM Model Overview"
      [] e = GridAnalysis -> "SCHISM Grid Analysis Overview"
      [] e = DataAnalysis -> "SCHISM Data Analysis Overview"

\* The panels of the grid analysis overview that call a delegate directly.
GridAnalysisGrid(ax, f) ==
    LET d == plot_bathymetry(ax, f)
    IN IF d.exc # NoExc THEN d
       ELSE R(set_title(d.ax, "Grid and Bathymetry"), <<>>, NoExc)

GridAnalysisQuality(ax, f) ==
    LET d == plot_grid_quality(ax, f)
    IN IF d.exc # NoExc THEN d
       ELSE R(set_title(d.ax, "Element Quality"), <<>>, NoExc)

GridAnalysisBoundaries(ax, f) ==
    LET d == plot_boundaries(ax, f)
    IN IF d.exc # NoExc THEN d
       ELSE R(set_title(d.ax, "Boundaries"), <<>>, NoExc)

\* Variant of RegionCells whose timeseries region spans two columns.
RegionCells_WideTimeseries(e, key) ==
    CASE e = Comprehensive ->
           ( CASE key = "grid" -> Cells(0..1, 0..1)
               [] key = "boundaries" -> Cells(0..1, {2})
               [] key = "data_locations" -> Cells(0..1, {3})
               [] key = "quality" -> Cells({2}, {0})
               [] key = "validation" -> Cells({2}, {1})
               [] key = "data_summary" -> Cells({2}, {2})
               [] key = "timeseries" -> Cells({2}, 2..3)
               [] key = "info" -> Cells({3}, 0..3) )
      [] e = GridAnalysis ->
           ( CASE key = "grid" -> Cells({0}, 0..1)
               [] key = "quality" -> Cells({0}, {2})
               [] key = "boundaries" -> Cells({1}, {0})
               [] key = "depth_hist" -> Cells({1}, {1})
               [] key = "size_hist" -> Cells({1}, {2})
               [] key = "stats" -> Cells({2}, 0..2) )
      [] e = DataAnalysis ->
           ( CASE key = "atmospheric" -> Cells({0}, {0})
               [] key = "boundary_locations" -> Cells({0}, {1})
               [] key = "coverage" -> Cells({0}, {2})
               [] key = "atm_timeseries" -> Cells({1}, 0..2)
               [] key = "boundary_ts" -> Cells({2}, {0})
               [] key = "data_quality" -> Cells({2}, {1})
               [] key = "data_stats" -> Cells({2}, {2}) )

\* gs[rows, cols] of each fig.add_subplot call.
RegionCells(e, key) ==
    CASE e = Comprehensive ->
           ( CASE key = "grid" -> Cells(0..1, 0..1)
               [] key = "boundaries" -> Cells(0..1, {2})
               [] key = "data_locations" -> Cells(0..1, {3})
               [] key = "quality" -> Cells({2}, {0})
               [] key = "validation" -> Cells({2}, {1})
               [] key = "data_summary" -> Cells({2}, {2})
               [] key = "timeseries" -> Cells({2}, {3})
               [] key = "info" -> Cells({3}, 0..3) )
      [] e = GridAnalysis ->
           ( CASE key = "grid" -> Cells({0}, 0..1)
               [] key = "quality" -> Cells({0}, {2})
               [] key = "boundaries" -> Cells({1}, {0})
               [] key = "depth_hist" -> Cells({1}, {1})
               [] key = "size_hist" -> Cells({1}, {2})
               [] key = "stats" -> Cells({2}, 0..2) )
      [] e = DataAnalysis ->
           ( CASE key = "atmospheric" -> Cells({0}, {0})
               [] key = "boundary_locations" -> Cells({0}, {1})
               [] key = "coverage" -> Cells({0}, {2})
               [] key = "atm_timeseries" -> Cells({1}, 0..2)
               [] key = "boundary_ts" -> Cells({2}, {0})
               [] key = "data_quality" -> Cells({2}, {1})
               [] key = "data_stats" -> Cells({2}, {2}) )

(***************************************************************************)
(* The state machine.                                                      *)
(***************************************************************************)
NoArgs ==
    [include_validation |-> TRUE, include_quality_metrics |-> TRUE,
     include_data_summary |-> TRUE, save_path |-> None]

\* A call that did not come by plot().
NotByPlot == [called |-> FALSE, given |-> {}, val |-> NoArgs]

\* Keyword arguments given to plot(): the keywords given, and their values
\* (the value of a keyword that is not given is not used).
PlotKwargs ==
    {[called |-> TRUE, given |-> {}, val |-> NoArgs],
     [called |-> TRUE, given |-> {"include_quality_metrics"},
      val |-> [NoArgs EXCEPT !.include_quality_metrics = FALSE]],
     [called |-> TRUE, given |-> {"include_validation", "save_path"},
      val |-> [NoArgs EXCEPT !.include_validation = FALSE,
                             !.save_path = "out/overview.png"]]}

\* Variant of Bind that drops the keyword arguments.
Bind_Dropped(kw) == NoArgs

\* plot_comprehensive_overview(**kwargs): each parameter takes the keyword's
\* value when it is given and the default of the signature otherwise.
Bind(kw) ==
    [include_validation |->
        IF "include_validation" \in kw.given
        THEN kw.val.include_validation ELSE TRUE,
     include_quality_metrics |->
        IF "include_quality_metrics" \in kw.given
        THEN kw.val.include_quality_metrics ELSE TRUE,
     include_data_summary |->
        IF "include_data_summary" \in kw.given
        THEN kw.val.include_data_summary ELSE TRUE,
     save_path |->
        IF "save_path" \in kw.given THEN kw.val.save_path ELSE None]

NoFig == [id |-> <<0, 0>>, shape |-> 0, suptitle |-> ""]

\* The sub-plotters and configuration a plotter is constructed with; no call
\* is in progress and nothing has been saved.
NoCallYet ==
    /\ data_plotter \in [plot_atmospheric_spatial : BOOLEAN]
    /\ plot_config = [dpi |-> "dpi"]
    /\ fsys = [dir |-> FALSE, file |-> FALSE]
    /\ entry = None
    /\ args = NoArgs
    /\ plot_kwargs = NotByPlot
    /\ fig = NoFig
    /\ axes = <<>>
    /\ order = <<>>
    /\ log = <<>>
    /\ saves = <<>>
    /\ calls = 0
    /\ faults = 0

\* OverviewPlotter.__init__: the plotter holds its grid handle, its two
\* sub-plotters and its plot configuration; no call is in progress.
PlotterInit ==
    /\ grid \in GridHandles
    /\ NoCallYet

Init ==
    /\ PlotterInit
    /\ pc = "idle"
    /\ metrics = <<>>
    /\ chart = add_subplot(<<0, 1>>, {})
    /\ data_chart = add_subplot(<<0, 2>>, {})

\* The first statements of an entry point: plt.figure, GridSpec, axes = {}.
Begin(e, a, kw) ==
    /\ calls < MaxCalls
    /\ calls' = calls + 1
    /\ entry' = e
    /\ args' = a
    /\ plot_kwargs' = kw
    /\ fig' = [id |-> <<calls + 1, 0>>, shape |-> GridShape(e), suptitle |-> ""]
    /\ axes' = <<>>
    /\ order' = <<>>
    /\ log' = <<>>
    /\ saves' = <<>>
    /\ faults' = 0
    /\ pc' = Regions(e, a)[1]
    /\ UNCHANGED <<plotterVars, fsys, chartVars>>

plot_comprehensive_overview ==
    \E v, q, d \in BOOLEAN, p \in SavePaths :
        /\ pc \in {"idle", "returned", "raised"}
        /\ Begin(Comprehensive,
                 [include_validation |-> v, include_quality_metrics |-> q,
                  include_data_summary |-> d, save_path |-> p], NotByPlot)

plot_grid_analysis_overview ==
    \E p \in SavePaths :
        /\ pc \in {"idle", "returned", "raised"}
        /\ Begin(GridAnalysis, [NoArgs EXCEPT !.save_path = p], NotByPlot)

plot_data_analysis_overview ==
    \E p \in SavePaths :
        /\ pc \in {"idle", "returned", "raised"}
        /\ Begin(DataAnalysis, [NoArgs EXCEPT !.save_path = p], NotByPlot)

\* plot(**kwargs): return self.plot_comprehensive_overview(**kwargs)
plot ==
    \E kw \in PlotKwargs :
        /\ pc \in {"idle", "returned", "raised"}
        /\ Begin(Comprehensive, Bind(kw), kw)

\* Records logged while the region `key` was being rendered.
Tag(lg, key) ==
    [i \in 1..Len(lg) |->
       [level |-> lg[i].level, msg |-> lg[i].msg, cause |-> lg[i].cause,
        region |-> key]]

\* The routine each entry point runs on the region `key`.
Routine(e, key, ax, f) ==
    CASE e = Comprehensive ->
           ( CASE key = "grid" -> _plot_main_grid_panel(ax, f)
               [] key = "boundaries" -> _plot_boundary_panel(ax, f)
               [] key = "data_locations" -> _plot_data_locations_panel(ax, f)
               [] key = "quality" -> _plot_quality_metrics_panel(ax, f)
               [] key = "validation" -> _plot_validation_panel(ax, f)
               [] key = "data_summary" -> _plot_data_summary_panel(ax, f)
               [] key = "timeseries" -> _plot_timeseries_overview_panel(ax, f)
               [] key = "info" -> _plot_model_info_panel(ax, f) )
      [] e = GridAnalysis ->
           ( CASE key = "grid" -> GridAnalysisGrid(ax, f)
               [] key = "quality" -> GridAnalysisQuality(ax, f)
               [] key = "boundaries" -> GridAnalysisBoundaries(ax, f)
               [] key = "depth_hist" -> _plot_depth_histogram(ax, f)
               [] key = "size_hist" -> _plot_element_size_histogram(ax, f)
               [] key = "stats" -> _plot_grid_statistics_table(ax, f) )
      [] e = DataAnalysis ->
           ( CASE key = "atmospheric" -> _plot_atmospheric_overview(ax, f)
               [] key = "boundary_locations" -> _plot_boundary_data_locations(ax, f)
               [] key = "coverage" -> _plot_data_coverage_timeline(ax, f)
               [] key = "atm_timeseries" ->
                    _plot_atmospheric_timeseries_overview(ax, f)
               [] key = "boundary_ts" -> _plot_boundary_timeseries_overview(ax, f)
               [] key = "data_quality" -> _plot_data_quality_metrics(ax, f)
               [] key = "data_stats" -> _plot_data_statistics_table(ax, f) )

\* axes[key] = fig.add_subplot(gs[...]); then the panel routine on it.  An
\* exception the routine lets through ends the call.
Panel(e, key) ==
    /\ pc = key
    /\ \E f \in Faults :
         LET ax == add_subplot(<<calls, Len(order) + 1>>, RegionCells(e, key))
             r == Routine(e, key, ax, f)
         IN /\ f = "ok" \/ (faults < MaxFaults /\ r # Routine(e, key, ax, "ok"))
            /\ faults' = IF f = "ok" THEN faults ELSE faults + 1
            /\ axes' = (key :> r.ax) @@ axes
            /\ order' = Append(order, key)
            /\ log' = log \o Tag(r.log, key)
            /\ pc' = IF r.exc = NoExc THEN After(e, args, key) ELSE "raised"
    /\ UNCHANGED <<plotterVars, fsys, entry, args, plot_kwargs, fig, saves,
                   calls, chartVars>>

\* The panels of plot_comprehensive_overview.
ComprehensiveGrid ==
    /\ entry = Comprehensive
    /\ Panel(Comprehensive, "grid")
ComprehensiveBoundaries ==
    /\ entry = Comprehensive
    /\ Panel(Comprehensive, "boundaries")
ComprehensiveDataLocations ==
    /\ entry = Comprehensive
    /\ Panel(Comprehensive, "data_locations")
ComprehensiveQuality ==
    /\ entry = Comprehensive
    /\ Panel(Comprehensive, "quality")
ComprehensiveValidation ==
    /\ entry = Comprehensive
    /\ Panel(Comprehensive, "validation")
ComprehensiveDataSummary ==
    /\ entry = Comprehensive
    /\ Panel(Comprehensive, "data_summary")
ComprehensiveTimeseries ==
    /\ entry = Comprehensive
    /\ Panel(Comprehensive, "timeseries")
ComprehensiveInfo ==
    /\ entry = Comprehensive
    /\ Panel(Comprehensive, "info")

\* The panels of plot_grid_analysis_overview.
AnalysisGrid ==
    /\ entry = GridAnalysis
    /\ Panel(GridAnalysis, "grid")
AnalysisQuality ==
    /\ entry = GridAnalysis
    /\ Panel(GridAnalysis, "quality")
AnalysisBoundaries ==
    /\ entry = GridAnalysis
    /\ Panel(GridAnalysis, "boundaries")
AnalysisDepthHist ==
    /\ entry = GridAnalysis
    /\ Panel(GridAnalysis, "depth_hist")
AnalysisSizeHist ==
    /\ entry = GridAnalysis
    /\ Panel(GridAnalysis, "size_hist")
AnalysisStats ==
    /\ entry = GridAnalysis
    /\ Panel(GridAnalysis, "stats")

\* The panels of plot_data_analysis_overview.
DataAtmospheric ==
    /\ entry = DataAnalysis
    /\ Panel(DataAnalysis, "atmospheric")
DataBoundaryLocations ==
    /\ entry = DataAnalysis
    /\ Panel(DataAnalysis, "boundary_locations")
DataCoverage ==
    /\ entry = DataAnalysis
    /\ Panel(DataAnalysis, "coverage")
DataAtmTimeseries ==
    /\ entry = DataAnalysis
    /\ Panel(DataAnalysis, "atm_timeseries")
DataBoundaryTs ==
    /\ entry = DataAnalysis
    /\ Panel(DataAnalysis, "boundary_ts")
DataQuality ==
    /\ entry = DataAnalysis
    /\ Panel(DataAnalysis, "data_quality")
DataStats ==
    /\ entry = DataAnalysis
    /\ Panel(DataAnalysis, "data_stats")

\* fig.suptitle(...); then `if save_path:` chooses between saving and
\* returning (fig, axes).
SetSuptitle ==
    /\ pc = "suptitle"
    /\ fig' = [fig EXCEPT !.suptitle = Suptitle(entry)]
    /\ pc' = IF Truthy(args.save_path) THEN "save" ELSE "returned"
    /\ UNCHANGED <<plotterVars, fsys, entry, args, plot_kwargs, axes, order,
                   log, saves, calls, faults, chartVars>>

\* self._save_plot(fig, save_path); return fig, axes
SavePlot ==
    /\ pc = "save"
    /\ \E f \in SaveFaults :
         LET r == _save_plot(fsys, f)
         IN /\ fsys' = r.fsys
            /\ saves' = Append(saves, r.steps)
            /\ log' = log \o Tag(r.log, "")
            /\ pc' = IF r.exc = NoExc THEN "returned" ELSE "raised"
    /\ UNCHANGED <<plotterVars, entry, args, plot_kwargs, fig, axes, order,
                   calls, faults, chartVars>>

Next ==
    \/ plot_comprehensive_overview
    \/ plot_grid_analysis_overview
    \/ plot_data_analysis_overview
    \/ plot
    \/ ComprehensiveGrid
    \/ ComprehensiveBoundaries
    \/ ComprehensiveDataLocations
    \/ ComprehensiveQuality
    \/ ComprehensiveValidation
    \/ ComprehensiveDataSummary
    \/ ComprehensiveTimeseries
    \/ ComprehensiveInfo
    \/ AnalysisGrid
    \/ AnalysisQuality
    \/ AnalysisBoundaries
    \/ AnalysisDepthHist
    \/ AnalysisSizeHist
    \/ AnalysisStats
    \/ DataAtmospheric
    \/ DataBoundaryLocations
    \/ DataCoverage
    \/ DataAtmTimeseries
    \/ DataBoundaryTs
    \/ DataQuality
    \/ DataStats
    \/ SetSuptitle
    \/ SavePlot

Spec == Init /\ [][Next]_vars

(***************************************************************************)
(* The grid quality chart on its own, over arbitrary metrics.              *)
(***************************************************************************)
ChartInit ==
    /\ PlotterInit
    /\ pc = "chart"
    /\ metrics \in MetricDicts
    /\ chart = add_subplot(<<0, 1>>, {})
    /\ data_chart = add_subplot(<<0, 2>>, {})

QualityChart ==
    /\ pc = "chart"
    /\ \E f \in Faults :
         LET r == _plot_quality_metrics_chart(chart, metrics, f)
         IN /\ f = "ok" \/ r # _plot_quality_metrics_chart(chart, metrics, "ok")
            /\ chart' = r.ax
            /\ pc' = IF r.exc = NoExc THEN "charted" ELSE "chart raised"
    /\ UNCHANGED <<plotterVars, fsys, entry, args, plot_kwargs, fig, axes,
                   order, log, saves, calls, faults, metrics, data_chart>>

\* The bars of the data quality chart, for the same metrics.
DataQualityChart ==
    /\ pc = "charted"
    /\ data_chart' = DrawAll(data_chart, DataQualityBars(metrics))
    /\ pc' = "both charted"
    /\ UNCHANGED <<plotterVars, fsys, entry, args, plot_kwargs, fig, axes,
                   order, log, saves, calls, faults, metrics, chart>>

ChartNext == QualityChart \/ DataQualityChart

ChartSpec == ChartInit /\ [][ChartNext]_vars

(***************************************************************************)
(* The validation chart on its own, over arbitrary results.                *)
(***************************************************************************)
ValidationInit ==
    /\ PlotterInit
    /\ pc = "validation"
    /\ metrics \in ResultDicts
    /\ chart = add_subplot(<<0, 1>>, {})
    /\ data_chart = add_subplot(<<0, 2>>, {})

ValidationChart ==
    /\ pc = "validation"
    /\ \E f \in Faults :
         LET r == _plot_validation_results(chart, metrics, f)
         IN /\ f = "ok" \/ r # _plot_validation_results(chart, metrics, "ok")
            /\ chart' = r.ax
            /\ pc' = IF r.exc = NoExc THEN "validated" ELSE "validation raised"
    /\ UNCHANGED <<plotterVars, fsys, entry, args, plot_kwargs, fig, axes,
                   order, log, saves, calls, faults, metrics, data_chart>>

ValidationNext == ValidationChart

ValidationSpec == ValidationInit /\ [][ValidationNext]_vars

(***************************************************************************)
(* The statistics table on its own, over dicts of every size.              *)
(***************************************************************************)
\* A statistics dict of n entries: entry i is the pair <<i, 10 * i>>.
StatsOf(n) == [i \in 1..n |-> <<i, 10 * i>>]

TableInit ==
    /\ PlotterInit
    /\ pc = "table"
    /\ metrics \in {StatsOf(n) : n \in 0..MaxPairs}
    /\ chart = add_subplot(<<0, 1>>, {})
    /\ data_chart = add_subplot(<<0, 2>>, {})

StatisticsTable ==
    /\ pc = "table"
    /\ \E f \in Faults :
         LET r == _create_statistics_table(chart, metrics, "Grid Statistics", f)
         IN /\ f = "ok" \/ metrics # <<>>
            /\ chart' = r.ax
            /\ pc' = IF r.exc = NoExc THEN "tabled" ELSE "table raised"
    /\ UNCHANGED <<plotterVars, fsys, entry, args, plot_kwargs, fig, axes,
                   order, log, saves, calls, faults, metrics, data_chart>>

TableNext == StatisticsTable

TableSpec == TableInit /\ [][TableNext]_vars

(***************************************************************************)
(* The depth routines on their own, over arbitrary depth arrays.           *)
(***************************************************************************)
DepthInit ==
    /\ grid \in DepthGrids
    /\ NoCallYet
    /\ pc = "depth"
    /\ metrics = <<>>
    /\ chart = add_subplot(<<0, 1>>, {})
    /\ data_chart = add_subplot(<<0, 2>>, {})

\* stats = self._calculate_grid_statistics()
GridStatistics ==
    /\ pc = "depth"
    /\ metrics' = _calculate_grid_statistics.val
    /\ log' = log \o _calculate_grid_statistics.log
    /\ pc' = "statistics"
    /\ UNCHANGED <<plotterVars, fsys, entry, args, plot_kwargs, fig, axes,
                   order, saves, calls, faults, chart, data_chart>>

DepthHistogram ==
    /\ pc = "statistics"
    /\ \E f \in Faults :
         LET r == _plot_depth_histogram(chart, f)
         IN /\ chart' = r.ax
            /\ log' = log \o r.log
            /\ pc' = IF f = "ok" THEN "histogram" ELSE "no histogram"
    /\ UNCHANGED <<plotterVars, fsys, entry, args, plot_kwargs, fig, axes,
                   order, saves, calls, faults, metrics, data_chart>>

DepthNext == GridStatistics \/ DepthHistogram

DepthSpec == DepthInit /\ [][DepthNext]_vars

(***************************************************************************)
(* The stub providers on their own, called on plotters of every grid       *)
(* handle.  metrics holds the value each provider returned.                *)
(***************************************************************************)
StubNames == {"quality_metrics", "validation_checks", "data_summary",
              "model_info"}

StubInit ==
    /\ grid \in GridHandles \cup DepthGrids
    /\ NoCallYet
    /\ pc = "stubs"
    /\ metrics = [done |-> {}, quality_metrics |-> <<>>,
                  validation_checks |-> <<>>, data_summary |-> <<>>,
                  model_info |-> <<>>]
    /\ chart = add_subplot(<<0, 1>>, {})
    /\ data_chart = add_subplot(<<0, 2>>, {})

CalculateQualityMetrics ==
    /\ pc = "stubs"
    /\ "quality_metrics" \notin metrics.done
    /\ metrics' = [metrics EXCEPT !.done = @ \cup {"quality_metrics"},
                                  !.quality_metrics = _calculate_quality_metrics]
    /\ UNCHANGED <<plotterVars, callVars, chart, data_chart>>

RunValidationChecks ==
    /\ pc = "stubs"
    /\ "validation_checks" \notin metrics.done
    /\ metrics' = [metrics EXCEPT !.done = @ \cup {"validation_checks"},
                                  !.validation_checks = _run_validation_checks]
    /\ UNCHANGED <<plotterVars, callVars, chart, data_chart>>

GetDataSummary ==
    /\ pc = "stubs"
    /\ "data_summary" \notin metrics.done
    /\ metrics' = [metrics EXCEPT !.done = @ \cup {"data_summary"},
                                  !.data_summary = _get_data_summary]
    /\ UNCHANGED <<plotterVars, callVars, chart, data_chart>>

GetModelInfo ==
    /\ pc = "stubs"
    /\ "model_info" \notin metrics.done
    /\ metrics' = [metrics EXCEPT !.done = @ \cup {"model_info"},
                                  !.model_info = _get_model_info]
    /\ UNCHANGED <<plotterVars, callVars, chart, data_chart>>

StubNext ==
    \/ CalculateQualityMetrics
    \/ RunValidationChecks
    \/ GetDataSummary
    \/ GetModelInfo

StubSpec == StubInit /\ [][StubNext]_vars

(***************************************************************************)
(* The data coverage timeline on its own, on plotters of every grid        *)
(* handle.                                                                 *)
(***************************************************************************)
CoverageInit ==
    /\ grid \in GridHandles \cup DepthGrids
    /\ NoCallYet
    /\ pc = "coverage"
    /\ metrics = <<>>
    /\ chart = add_subplot(<<0, 1>>, {})
    /\ data_chart = add_subplot(<<0, 2>>, {})

CoverageTimeline ==
    /\ pc = "coverage"
    /\ \E f \in Faults :
         LET r == _plot_data_coverage_timeline(chart, f)
         IN /\ chart' = r.ax
            /\ log' = log \o r.log
            /\ pc' = IF f = "ok" THEN "coverage drawn" ELSE "coverage failed"
    /\ UNCHANGED <<plotterVars, fsys, entry, args, plot_kwargs, fig, axes,
                   order, saves, calls, faults, metrics, data_chart>>

CoverageNext == CoverageTimeline

CoverageSpec == CoverageInit /\ [][CoverageNext]_vars

(***************************************************************************)
(* Properties.                                                             *)
(***************************************************************************)
Returned == pc = "returned"

HasChart(ax) == ax.artists # <<>>

HasPlaceholder(ax) == ax.labels # <<>>

\* C1: in each of the three entry points a failure while rendering a region
\* is caught at that region: the call does not raise, every later region is
\* still created and rendered, and the figure and the full mapping are
\* returned.
C1_RenderFailureNeverEscapes ==
    /\ pc # "raised"
    /\ Returned => order = Regions(entry, args)

\* C2: the mapping plot_comprehensive_overview returns has the keys grid,
\* boundaries, data_locations, timeseries and info, plus validation iff
\* include_validation, quality iff include_quality_metrics and data_summary
\* iff include_data_summary.
C2_ComprehensiveKeys ==
    (Returned /\ entry = Comprehensive) =>
        DOMAIN axes =
            {"grid", "boundaries", "data_locations", "timeseries", "info"}
            \cup (IF args.include_validation THEN {"validation"} ELSE {})
            \cup (IF args.include_quality_metrics THEN {"quality"} ELSE {})
            \cup (IF args.include_data_summary THEN {"data_summary"} ELSE {})

\* C2 witness: a comprehensive overview returned with the validation panel
\* switched off and the other two optional panels on.
C2_Witness ==
    /\ Returned
    /\ entry = Comprehensive
    /\ ~args.include_validation
    /\ args.include_quality_metrics
    /\ args.include_data_summary
    /\ "validation" \notin DOMAIN axes
    /\ Cardinality(DOMAIN axes) = 7

\* C3: whenever plot_grid_analysis_overview returns its mapping has exactly
\* the keys grid, quality, boundaries, depth_hist, size_hist, stats, and
\* whenever plot_data_analysis_overview returns its mapping has exactly the
\* keys atmospheric, boundary_locations, coverage, atm_timeseries,
\* boundary_ts, data_quality, data_stats, whether panels drew their chart or
\* a placeholder.
C3_AnalysisKeys ==
    /\ (Returned /\ entry = GridAnalysis) =>
           DOMAIN axes =
               {"grid", "quality", "boundaries", "depth_hist", "size_hist", "stats"}
    /\ (Returned /\ entry = DataAnalysis) =>
           DOMAIN axes =
               {"atmospheric", "boundary_locations", "coverage", "atm_timeseries",
                "boundary_ts", "data_quality", "data_stats"}

\* C3 witness: a grid analysis overview returned although one of its panels
\* failed and shows a placeholder next to panels that drew their chart.
C3_Witness ==
    /\ Returned
    /\ entry = GridAnalysis
    /\ faults > 0
    /\ \E k \in DOMAIN axes : HasPlaceholder(axes[k])
    /\ \E k \in DOMAIN axes : HasChart(axes[k]) /\ ~HasPlaceholder(axes[k])

GridDependent == {"grid", "depth_hist", "quality", "stats"}

\* C4: with no grid handle no entry point raises, and every grid-dependent
\* region it creates (grid, depth_hist, quality, stats) ends up holding a
\* placeholder.
C4_NoGridGivesPlaceholders ==
    ~grid.present =>
        /\ pc # "raised"
        /\ Returned =>
               \A k \in DOMAIN axes \cap GridDependent : HasPlaceholder(axes[k])

\* C5: at return every region of the mapping has been rendered: it holds
\* chart content or a placeholder label.
C5_NoEmptyRegion ==
    Returned => \A k \in DOMAIN axes : HasChart(axes[k]) \/ HasPlaceholder(axes[k])

\* C6: every region of a returned mapping has a bold title, whichever path
\* its panel routine took.
C6_EveryRegionTitled ==
    Returned => \A k \in DOMAIN axes : axes[k].title # "" /\ axes[k].bold

SaveFailed(steps) == \E i \in 1..Len(steps) : ~steps[i].ok

\* C7: a failure inside the save operation (path conversion, directory
\* creation, file write) is caught and logged at error level, never raised;
\* the call returns the figure and mapping it had computed before the save.
C7_SaveFailureLoggedNotRaised ==
    [][pc = "save" =>
         /\ pc' = "returned"
         /\ fig' = fig
         /\ axes' = axes
         /\ order' = order
         /\ Len(saves') = Len(saves) + 1
         /\ SaveFailed(saves'[Len(saves')]) =>
                /\ Len(log') = Len(log) + 1
                /\ log'[Len(log')].level = "error"]_vars

\* C7 witness: a call that returned its complete mapping after its save
\* failed and the failure was logged at error level.
C7_Witness ==
    /\ Returned
    /\ order = Regions(entry, args)
    /\ saves # <<>>
    /\ SaveFailed(saves[Len(saves)])
    /\ log # <<>>
    /\ log[Len(log)].level = "error"

\* What C8 requires of every state of a call.
C8_State ==
    /\ Len(saves) <= 1
    /\ saves # <<>> =>
           /\ args.save_path \notin {None, ""}
           /\ order = Regions(entry, args)
           /\ fig.suptitle = Suptitle(entry)
    /\ pc = "raised" => saves = <<>>

\* C8: in each call the save operation is invoked at most once, only when a
\* save path was given, and only after every region has been created and
\* rendered and the overall title is set; with no save path no directory is
\* created and no file is written; a call that raises does not save.
C8_SaveOnceAtEnd ==
    [][/\ C8_State'
       /\ args'.save_path \in {None, ""} => fsys' = fsys]_vars

\* C8 witness: a call given a save path returned after one save, which wrote
\* the file once all regions and the overall title were in place.
C8_Witness ==
    /\ Returned
    /\ args.save_path = "out/overview.png"
    /\ Len(saves) = 1
    /\ ~SaveFailed(saves[1])
    /\ fsys.file
    /\ order = Regions(entry, args)
    /\ fig.suptitle # ""

\* C9: whenever a region of a returned mapping shows a placeholder, a
\* warning-level record for that region has been logged.
C9_PlaceholderHasWarning ==
    Returned =>
        \A k \in DOMAIN axes :
            HasPlaceholder(axes[k]) =>
                \E i \in 1..Len(log) :
                    log[i].level = "warning" /\ log[i].region = k

\* The bars the grid quality chart drew, one per metric in the dict's order.
BarsMatch(colour) ==
    (pc = "charted" /\ metrics # <<>>) =>
        \A i \in 1..Len(metrics) :
            /\ chart.artists[i].kind = "barh"
            /\ chart.artists[i].what = metrics[i][1]
            /\ chart.artists[i].val = metrics[i][2]
            /\ chart.artists[i].color = colour[metrics[i][2]]

\* C10 as stated: the grid quality chart colours a score v green when
\* v >= 0.8, orange when 0.6 <= v < 0.8 and red otherwise.
C10_InclusiveThresholds ==
    BarsMatch([v \in Scores |-> IF v >= 80 THEN "green"
                                ELSE IF v >= 60 THEN "orange" ELSE "red"])

\* C10 as amended: the grid quality chart colours a score v green when
\* v > 0.8, orange when 0.6 < v <= 0.8 and red otherwise, so 0.8 is orange
\* and 0.6 is red.
C10_StrictThresholds ==
    BarsMatch([v \in Scores |-> IF v > 80 THEN "green"
                                ELSE IF v > 60 THEN "orange" ELSE "red"])

\* C10 witness: a chart drawn for the scores 0.8, 0.6 and 0.95, whose bars
\* are orange, red and green.
C10_Witness ==
    /\ pc = "charted"
    /\ Len(metrics) = 3
    /\ metrics[1][2] = 80
    /\ metrics[2][2] = 60
    /\ metrics[3][2] = 95
    /\ chart.artists[1].color = "orange"
    /\ chart.artists[2].color = "red"
    /\ chart.artists[3].color = "green"

\* The colours the two quality charts gave entry i of the same metrics.
GridQualityColour(i) == chart.artists[i].color
DataQualityColour(i) == data_chart.artists[i].color

BothCharted == pc = "both charted"

\* C11 as stated: the grid quality panel and the data quality panel both
\* colour a score v green when v >= 0.9, orange when 0.8 <= v < 0.9 and red
\* otherwise, so for every score the two panels assign the same colour.
C11_SameColouring ==
    BothCharted =>
        \A i \in 1..Len(metrics) :
            LET v == metrics[i][2]
                c == IF v >= 90 THEN "green"
                     ELSE IF v >= 80 THEN "orange" ELSE "red"
            IN /\ DataQualityColour(i) = c
               /\ GridQualityColour(i) = c

\* C11 as amended: only the data quality panel colours a score v green when
\* v >= 0.9, orange when 0.8 <= v < 0.9 and red otherwise; the grid quality
\* panel colours it green when v > 0.8, orange when 0.6 < v <= 0.8 and red
\* otherwise, so the two panels assign the same colour exactly when
\* v >= 0.9, v = 0.8 or v <= 0.6.
C11_PanelsDiffer ==
    BothCharted =>
        \A i \in 1..Len(metrics) :
            LET v == metrics[i][2]
            IN /\ data_chart.artists[i].kind = "bar"
               /\ data_chart.artists[i].val = v
               /\ DataQualityColour(i) =
                    (IF v >= 90 THEN "green"
                     ELSE IF v >= 80 THEN "orange" ELSE "red")
               /\ GridQualityColour(i) =
                    (IF v > 80 THEN "green"
                     ELSE IF v > 60 THEN "orange" ELSE "red")
               /\ (DataQualityColour(i) = GridQualityColour(i))
                    <=> (v >= 90 \/ v = 80 \/ v <= 60)

\* C11 witness: both charts drawn for the scores 0.85, 0.75 and 0.9; the
\* grid quality chart shows green, orange, green and the data quality chart
\* orange, red, green.
C11_Witness ==
    /\ BothCharted
    /\ Len(metrics) = 3
    /\ metrics[1][2] = 85
    /\ metrics[2][2] = 75
    /\ metrics[3][2] = 90
    /\ GridQualityColour(1) = "green" /\ DataQualityColour(1) = "orange"
    /\ GridQualityColour(2) = "orange" /\ DataQualityColour(2) = "red"
    /\ GridQualityColour(3) = "green" /\ DataQualityColour(3) = "green"

Bars(ax) == SelectSeq(ax.artists, LAMBDA a : a.kind \in {"bar", "barh"})

\* C12: for a non-empty mapping of validation results the chart draws exactly
\* one bar per check, in the mapping's order, green for 'PASS', orange for
\* 'WARNING', red for 'FAIL' and gray for any other status; for an empty
\* mapping it draws no bar and the placeholder 'No validation results'.
C12_ValidationBars ==
    pc = "validated" =>
        IF metrics = <<>>
        THEN /\ chart.artists = <<>>
             /\ chart.labels = <<"No validation results">>
        ELSE /\ chart.labels = <<>>
             /\ Len(Bars(chart)) = Len(metrics)
             /\ \A i \in 1..Len(metrics) :
                  /\ Bars(chart)[i].what = metrics[i][1]
                  /\ Bars(chart)[i].val = i - 1
                  /\ Bars(chart)[i].color =
                       ("PASS" :> "green" @@ "WARNING" :> "orange" @@
                        "FAIL" :> "red" @@ "UNKNOWN" :> "gray")[metrics[i][2]]

\* C12 witness: the chart drawn for the statuses PASS, WARNING, UNKNOWN, with
\* a green, an orange and a gray bar.
C12_Witness ==
    /\ pc = "validated"
    /\ Len(metrics) = 3
    /\ <<metrics[1][2], metrics[2][2], metrics[3][2]>> =
         <<"PASS", "WARNING", "UNKNOWN">>
    /\ <<Bars(chart)[1].color, Bars(chart)[2].color, Bars(chart)[3].color>> =
         <<"green", "orange", "gray">>

\* C12 witness of the empty mapping: no bar, one placeholder.
C12_EmptyWitness ==
    /\ pc = "validated"
    /\ metrics = <<>>
    /\ chart.labels = <<"No validation results">>

\* The cell holding part p (0 the key, 1 the value) of pair k (0-based).
PairCell(k, p) == [empty |-> FALSE, item |-> k, part |-> p]
EmptyCell == [empty |-> TRUE, item |-> 0, part |-> 0]

\* The text cells of the table drawn into the chart, by row and column.
TableCell(row, col) == chart.artists[1].val[row + 1][col + 1].cell

\* C13: for n >= 1 pairs the statistics table has ceil(n/3) rows of exactly
\* 6 cells; pair k (0-based) occupies cells (k div 3, 2*(k mod 3)) and
\* (k div 3, 2*(k mod 3) + 1), and every slot with index >= n is two empty
\* cells; no n makes the routine read outside the pairs or the table.
C13_TableLayout ==
    (pc = "tabled" /\ Len(metrics) >= 1) =>
        LET n == Len(metrics)
            table == chart.artists[1].val
            rows == Len(table)
        IN /\ chart.artists[1].kind = "table"
           /\ 3 * rows >= n /\ 3 * (rows - 1) < n
           /\ \A r \in 1..rows : Len(table[r]) = 6
           /\ \A k \in 0..(3 * rows - 1) :
                IF k < n
                THEN /\ TableCell(k \div 3, 2 * (k % 3)) = PairCell(k, 0)
                     /\ TableCell(k \div 3, 2 * (k % 3) + 1) = PairCell(k, 1)
                ELSE /\ TableCell(k \div 3, 2 * (k % 3)) = EmptyCell
                     /\ TableCell(k \div 3, 2 * (k % 3) + 1) = EmptyCell

\* C13 witness: the table of 7 pairs has 3 rows; the last row holds pair 6
\* in its first slot and its second and third slots are empty.
C13_Witness ==
    /\ pc = "tabled"
    /\ Len(metrics) = 7
    /\ Len(chart.artists[1].val) = 3
    /\ TableCell(2, 0) = PairCell(6, 0)
    /\ TableCell(2, 1) = PairCell(6, 1)
    /\ TableCell(2, 4) = EmptyCell
    /\ TableCell(2, 5) = EmptyCell

\* The positions of the depth array that hold a value, and those values.
Present == {i \in DOMAIN grid.depth : ~grid.depth[i].nan}
PresentValues == {grid.depth[i].v : i \in Present}

Stat(name) ==
    LET i == CHOOSE j \in DOMAIN metrics : metrics[j][1] = name
    IN metrics[i][2]

Occurrences(s, x) == Cardinality({i \in DOMAIN s : s[i] = x})

\* C14: when the depth array has missing entries (and at least one value),
\* the histogram bins exactly the non-missing values, and min, max and mean
\* are those of the non-missing values, the mean being rounded to two
\* decimals; values are in hundredths of a metre.
C14_MissingDepthsExcluded ==
    (pc = "histogram" /\ Present # {}) =>
        LET binned == chart.artists[1].val
            total == SeqSum([i \in 1..Len(binned) |-> binned[i]])
        IN /\ chart.artists[1].kind = "hist"
           /\ Len(binned) = Cardinality(Present)
           /\ \A x \in {V(1), V(2), V(3), NaN} :
                Occurrences(binned, x) =
                    IF x.nan THEN 0 ELSE Occurrences(grid.depth, x)
           /\ Stat("Min Depth") \in {100 * v : v \in PresentValues}
           /\ \A v \in PresentValues : Stat("Min Depth") <= 100 * v
           /\ Stat("Max Depth") \in {100 * v : v \in PresentValues}
           /\ \A v \in PresentValues : Stat("Max Depth") >= 100 * v
           /\ 2 * (Stat("Mean Depth") * Cardinality(Present) - 100 * total)
                <= Cardinality(Present)
           /\ 2 * (100 * total - Stat("Mean Depth") * Cardinality(Present))
                < Cardinality(Present)

\* C14 witness: for the depths [1, 2, 3, NaN] the histogram bins 1, 2, 3 and
\* the statistics are min 1.00, max 3.00, mean 2.00.
C14_Witness ==
    /\ pc = "histogram"
    /\ grid.depth = <<V(1), V(2), V(3), NaN>>
    /\ chart.artists[1].val = <<V(1), V(2), V(3)>>
    /\ Stat("Min Depth") = 100
    /\ Stat("Max Depth") = 300
    /\ Stat("Mean Depth") = 200

ByPlot == plot_kwargs.called

\* The value the keyword k has in the call plot() forwards to: the one given
\* to plot(), or the default of plot_comprehensive_overview().
Forwarded(k, default) ==
    IF k \in plot_kwargs.given THEN plot_kwargs.val[k] ELSE default

\* C15: a call of plot() runs plot_comprehensive_overview with the keyword
\* arguments it was given and the defaults for the others; it renders the
\* panels plot_comprehensive_overview renders for these arguments, in the
\* same sequence, and with no keyword argument it returns all eight keys.
C15_PlotIsAlias ==
    ByPlot =>
        /\ entry = Comprehensive
        /\ args.include_validation = Forwarded("include_validation", TRUE)
        /\ args.include_quality_metrics =
             Forwarded("include_quality_metrics", TRUE)
        /\ args.include_data_summary = Forwarded("include_data_summary", TRUE)
        /\ args.save_path = Forwarded("save_path", None)
        /\ order = SubSeq(Regions(Comprehensive, args), 1, Len(order))
        /\ DOMAIN axes = {order[i] : i \in 1..Len(order)}
        /\ (Returned /\ plot_kwargs.given = {}) =>
             order = <<"grid", "boundaries", "data_locations", "quality",
                       "validation", "data_summary", "timeseries", "info">>

\* C15 witness: plot() without keyword arguments returned eight regions.
C15_Witness ==
    /\ ByPlot
    /\ plot_kwargs.given = {}
    /\ Returned
    /\ Len(order) = 8
    /\ Cardinality(DOMAIN axes) = 8

\* C15 witness of forwarding: plot(include_validation=False, save_path=...)
\* returned seven regions and saved.
C15_ForwardWitness ==
    /\ ByPlot
    /\ plot_kwargs.given = {"include_validation", "save_path"}
    /\ Returned
    /\ "validation" \notin DOMAIN axes
    /\ Len(order) = 7
    /\ saves # <<>>

\* C16: whatever the grid handle of the plotter (none, one without depths,
\* one with any depth array), each of the four stub providers returns the
\* same fixed value, so two plotters that differ only in their grid handle
\* obtain identical values.
C16_StubsIgnoreGrid ==
    /\ "quality_metrics" \in metrics.done =>
         metrics.quality_metrics =
            << <<"min_aspect_ratio", 85>>, <<"avg_aspect_ratio", 95>>,
               <<"skewness_score", 92>>, <<"orthogonality_score", 88>> >>
    /\ "validation_checks" \in metrics.done =>
         metrics.validation_checks =
            << <<"Grid connectivity", "PASS">>,
               <<"Boundary conditions", "PASS">>,
               <<"Time stepping", "WARNING">>, <<"Data coverage", "PASS">>,
               <<"File integrity", "PASS">> >>
    /\ "data_summary" \in metrics.done =>
         metrics.data_summary =
            << <<"atmospheric_files", 2>>, <<"boundary_files", 3>>,
               <<"tidal_constituents", 8>>, <<"time_coverage_days", 30>> >>
    /\ "model_info" \in metrics.done =>
         metrics.model_info =
            << <<"SCHISM Version", "5.11.0">>, <<"Grid Type", "Unstructured">>,
               <<"Vertical Layers", "10">>, <<"Physics", "Hydrostatic">>,
               <<"Modules", "WWM, ICE, SED">> >>

\* C16 witness: a plotter without a grid has called the four providers and
\* holds their non-empty values.
C16_Witness ==
    /\ ~HasGrid
    /\ metrics.done = StubNames
    /\ Len(metrics.quality_metrics) = 4
    /\ Len(metrics.validation_checks) = 5
    /\ Len(metrics.data_summary) = 4
    /\ Len(metrics.model_info) = 5

\* The identities of the figure and the Axes of the call in progress (or of
\* the last call, once it has returned).
ObjIds == {fig.id} \cup {axes[k].id : k \in DOMAIN axes}

\* C17: no step of a composition call changes the plotter's grid handle,
\* sub-plotters or configuration; the figure and every Axes of a call are
\* distinct objects created by that call, and the first step of a call
\* shares no object with the result of the call before it.
C17_CallOwnsItsObjects ==
    [][/\ grid' = grid
       /\ data_plotter' = data_plotter
       /\ plot_config' = plot_config
       /\ calls' \in {calls, calls + 1}
       /\ \A id \in ObjIds' : id[1] = calls'
       /\ Cardinality(ObjIds') = 1 + Cardinality(DOMAIN axes')
       /\ calls' = calls => ObjIds \subseteq ObjIds'
       /\ calls' = calls + 1 => ObjIds \cap ObjIds' = {}]_vars

\* C17 witness: the second call on a plotter returned a figure and six or
\* more Axes, all created by the second call.
C17_Witness ==
    /\ Returned
    /\ calls = 2
    /\ Cardinality(ObjIds) >= 6
    /\ \A id \in ObjIds : id[1] = 2

Ops(steps) == [i \in 1..Len(steps) |-> steps[i].op]
Errors == SelectSeq(log, LAMBDA r : r.level = "error")

\* C18: the save operation creates the parent directory before it attempts
\* the file write; when directory creation fails the write is not attempted
\* and exactly one error is logged; a directory that was created exists.
C18_MkdirBeforeWrite ==
    \A i \in 1..Len(saves) :
        LET steps == saves[i]
        IN /\ \A j \in 1..Len(steps) :
                steps[j].op = "savefig" => j > 1 /\ steps[j - 1] = Did("mkdir")
           /\ \A j \in 1..Len(steps) :
                steps[j] = Did("mkdir") => fsys.dir
           /\ \A j \in 1..Len(steps) :
                steps[j] = Failed("mkdir") =>
                    /\ \A k \in 1..Len(steps) : steps[k].op # "savefig"
                    /\ Len(Errors) = 1

\* C18 witness: a call whose save stopped at a failed mkdir, with one error
\* logged and no file written.
C18_Witness ==
    /\ Returned
    /\ saves = << <<Did("Path"), Failed("mkdir")>> >>
    /\ Len(Errors) = 1
    /\ ~fsys.file

\* C18 witness of an existing directory: the second call saved into the
\* directory the first call had created.
C18_ExistingDirWitness ==
    /\ Returned
    /\ calls = 2
    /\ saves = << <<Did("Path"), Did("mkdir"), Did("savefig")>> >>
    /\ fsys.dir /\ fsys.file

\* The cells of the regions created so far, and of the whole grid.
Occupied == UNION {axes[k].cells : k \in DOMAIN axes}
AllCells == (0..(fig.shape - 1)) \X (0..(fig.shape - 1))

\* The cells of the optional regions that are switched off.
SwitchedOff ==
    IF entry # Comprehensive THEN {}
    ELSE (IF args.include_quality_metrics THEN {} ELSE {<<2, 0>>})
         \cup (IF args.include_validation THEN {} ELSE {<<2, 1>>})
         \cup (IF args.include_data_summary THEN {} ELSE {<<2, 2>>})

\* C19: in each layout the regions occupy pairwise disjoint cells; the
\* regions of a returned mapping cover every cell of the 4x4 or 3x3 grid
\* except the single cells of the optional regions that are switched off,
\* and the regions of the comprehensive layout lie where they lie with all
\* flags on.
C19_RegionsTileTheGrid ==
    /\ \A k1, k2 \in DOMAIN axes :
         k1 # k2 => axes[k1].cells \cap axes[k2].cells = {}
    /\ Occupied \subseteq AllCells
    /\ Returned => Occupied = AllCells \ SwitchedOff
    /\ entry = Comprehensive =>
         \A k \in DOMAIN axes :
            axes[k].cells =
                CASE k = "grid" -> {<<0, 0>>, <<0, 1>>, <<1, 0>>, <<1, 1>>}
                  [] k = "boundaries" -> {<<0, 2>>, <<1, 2>>}
                  [] k = "data_locations" -> {<<0, 3>>, <<1, 3>>}
                  [] k = "quality" -> {<<2, 0>>}
                  [] k = "validation" -> {<<2, 1>>}
                  [] k = "data_summary" -> {<<2, 2>>}
                  [] k = "timeseries" -> {<<2, 3>>}
                  [] k = "info" -> {<<3, 0>>, <<3, 1>>, <<3, 2>>, <<3, 3>>}

\* C19 witness: a comprehensive overview returned with the validation panel
\* off; fifteen cells are occupied and cell (2, 1) is free.
C19_Witness ==
    /\ Returned
    /\ entry = Comprehensive
    /\ ~args.include_validation
    /\ args.include_quality_metrics /\ args.include_data_summary
    /\ Cardinality(Occupied) = 15
    /\ <<2, 1>> \notin Occupied

\* C19 witness of full layouts: a returned grid analysis overview covers the
\* nine cells of its grid.
C19_AnalysisWitness ==
    /\ Returned
    /\ entry = GridAnalysis
    /\ Cardinality(Occupied) = 9

\* C20: a region holds chart content or one placeholder label, never both,
\* and never two placeholder labels, even when a routine fails after it has
\* drawn part of its chart.
C20_ChartOrPlaceholder ==
    \A k \in DOMAIN axes :
        /\ ~(HasChart(axes[k]) /\ HasPlaceholder(axes[k]))
        /\ Len(axes[k].labels) <= 1

\* The second half of C20 on its own: no region has two placeholder labels.
C20_OnePlaceholder ==
    \A k \in DOMAIN axes : Len(axes[k].labels) <= 1

\* C21: the data coverage timeline draws exactly one bar per category; the
\* bar of the category of index i in 0..3 is at vertical position i, starts
\* at day 2*i and is 30 - 3*i days long, so it has a positive length,
\* starts at or after day 0 and ends at day 30 - i, inside the axis range
\* 0..30.
C21_CoverageBars ==
    pc = "coverage drawn" =>
        /\ Len(chart.artists) = 4
        /\ chart.labels = <<>>
        /\ \A i \in 0..3 :
             LET bar == chart.artists[i + 1]
             IN /\ bar.kind = "barh"
                /\ bar.what = <<"Atmospheric", "Boundary T/S", "Boundary UV",
                                "Tidal">>[i + 1]
                /\ bar.y = i
                /\ bar.left = 2 * i
                /\ bar.val = 30 - 3 * i
                /\ bar.val > 0
                /\ bar.left >= 0
                /\ bar.left + bar.val = 30 - i
                /\ bar.left + bar.val <= 30

\* C21 witness: the timeline is drawn; the bar of 'Tidal' is at position 3,
\* starts at day 6 and is 21 days long, and that of 'Atmospheric' spans the
\* whole axis.
C21_Witness ==
    /\ pc = "coverage drawn"
    /\ chart.artists[4].what = "Tidal"
    /\ chart.artists[4].y = 3
    /\ chart.artists[4].left = 6
    /\ chart.artists[4].val = 21
    /\ chart.artists[1].left = 0
    /\ chart.artists[1].val = 30

====
